---- MODULE Spec2Model ----
(***************************************************************************)
(* TilePuzzler (src/tilepuzzler.go): the Slicer (uploadPuzzleHandler), the *)
(* Composer (exportPuzzleHandler) and the catalog imageIndex.json guarded  *)
(* by imageIndexMutex.                                                     *)
(*                                                                         *)
(* Text (file names, "row,col" keys) is a sequence of one-character        *)
(* strings, so that fmt.Sprintf and fmt.Sscanf are computed, not assumed.  *)
(* float64 values are exact IEEE-754 doubles: a 53-bit mantissa held in    *)
(* two 27-bit limbs and a binary exponent.                                 *)
(***************************************************************************)
EXTENDS Integers, Sequences, FiniteSets, TLC

\* ---------------------------------------------------------------- bounds
MaxDim == 4
MaxColumns == 2
MaxRoundTiles == 4
NumUploads == 2
MaxPlacements == 2
MaxFaults == 1

\* ------------------------------------------------------ program constants
tileSize == 512

\* ------------------------------------------------------- float64 division
Limb == 2^27

BigOf(n) == <<n \div Limb, n % Limb>>

BigDbl(x, bit) ==
    LET lo2 == 2 * x[2] + bit
    IN  <<2 * x[1] + (lo2 \div Limb), lo2 % Limb>>

BigGeq(x, y) == x[1] > y[1] \/ (x[1] = y[1] /\ x[2] >= y[2])

BigSub(x, y) ==
    IF x[2] >= y[2] THEN <<x[1] - y[1], x[2] - y[2]>>
    ELSE <<x[1] - y[1] - 1, x[2] + Limb - y[2]>>

\* x shifted right by n bits.
BigShr(x, n) ==
    IF n >= 27 THEN <<0, x[1] \div 2^(n - 27)>>
    ELSE <<x[1] \div 2^n, (x[1] % 2^n) * 2^(27 - n) + x[2] \div 2^n>>

\* x * 2^j + q for j <= 3, q < 2^j and x < 2^50.
BigShlAdd(x, j, q) ==
    LET lo2 == x[2] * 2^j + q
    IN  <<x[1] * 2^j + (lo2 \div Limb), lo2 % Limb>>

RECURSIVE BitLen(_)
BitLen(n) == IF n = 0 THEN 0 ELSE 1 + BitLen(n \div 2)

\* n more quotient bits of rem/b appended to the mantissa m (rem < b), three
\* bits at a time: <<mantissa, remainder>>.
RECURSIVE FracBits(_, _, _, _)
FracBits(m, rem, b, n) ==
    IF n = 0 THEN <<m, rem>>
    ELSE LET j == IF n >= 3 THEN 3 ELSE n
             num == rem * 2^j
         IN  FracBits(BigShlAdd(m, j, num \div b), num % b, b, n - j)

\* The number of doublings that bring rem (0 < rem < b) to at least b.
RECURSIVE LeadShift(_, _)
LeadShift(rem, b) == IF rem >= b THEN 0 ELSE 1 + LeadShift(2 * rem, b)

\* float64(a) / float64(b) for integers 0 < a, b < 2^24, rounded to nearest,
\* ties to even: the double m * 2^(e - 52) with 2^52 <= m < 2^53.
FloatDiv(a, b) ==
    LET q0 == a \div b
        r0 == a % b
        k  == BitLen(q0)
        sh == IF q0 > 0 THEN 0 ELSE LeadShift(r0, b)
        e  == IF q0 > 0 THEN k - 1 ELSE 0 - sh
        m0 == IF q0 > 0 THEN BigOf(q0) ELSE BigOf(1)
        n0 == IF q0 > 0 THEN r0 ELSE r0 * 2^sh - b
        have == IF q0 > 0 THEN k ELSE 1
        mr == FracBits(m0, n0, b, 53 - have)
        m  == mr[1]
        rem == mr[2]
        guard == IF 2 * rem >= b THEN 1 ELSE 0
        sticky == (2 * rem - guard * b) # 0
        up == guard = 1 /\ (sticky \/ m[2] % 2 = 1)
        m1 == IF ~up THEN m
              ELSE IF m[2] + 1 = Limb THEN <<m[1] + 1, 0>> ELSE <<m[1], m[2] + 1>>
    IN  IF m1[1] >= Limb \div 2
        THEN [m |-> <<Limb \div 4, 0>>, e |-> e + 1]
        ELSE [m |-> m1, e |-> e]

\* s steps of the long division of rem * 2^s by d (rem < d): <<quotient,
\* remainder>>.
RECURSIVE LongDiv(_, _, _, _)
LongDiv(q, rem, d, s) ==
    IF s = 0 THEN <<q, rem>>
    ELSE LET r2 == BigDbl(rem, 0)
         IN  IF BigGeq(r2, d) THEN LongDiv(2 * q + 1, BigSub(r2, d), d, s - 1)
             ELSE LongDiv(2 * q, r2, d, s - 1)

\* TRUE iff the next n quotient bits of rem/d are all ones (rem < d):
\* rem * 2^n >= (2^n - 1) * d, that is d - rem <= d / 2^n.
AllOnes(rem, d, n) == BigGeq(BigShr(d, n), BigSub(d, rem))

\* int(float64(t) / f) for an integer 0 < t < 2^24 and a double f: the
\* quotient t * 2^(52 - f.e) / f.m is rounded to a double (nearest, ties to
\* even) and then truncated. The first 52 - BitLen(t) doublings of t stay
\* below 2^52 <= f.m and yield quotient bits 0.
TruncFloatQuot(t, f) ==
    LET s  == 52 - f.e
        j  == 52 - BitLen(t)
        qr == LongDiv(0, <<t * 2^(j - 27), 0>>, f.m, s - j)
        n  == qr[1]
    IN  IF s < j THEN 0
        ELSE IF AllOnes(qr[2], f.m, 54 - BitLen(n)) THEN n + 1 ELSE n

\* ------------------------------------------------------------------ text
Digits == <<"0", "1", "2", "3", "4", "5", "6", "7", "8", "9">>

IsDigit(ch) == \E d \in 1..10 : Digits[d] = ch

DigitVal(ch) == (CHOOSE d \in 1..10 : Digits[d] = ch) - 1

\* fmt.Sprintf("%d", n)
RECURSIVE Itoa(_)
Itoa(n) ==
    IF n < 0 THEN <<"-">> \o Itoa(0 - n)
    ELSE IF n < 10 THEN <<Digits[n + 1]>>
    ELSE Itoa(n \div 10) \o <<Digits[(n % 10) + 1]>>

\* fmt.Sprintf("%04d", n) for n >= 0: zero-padded to at least four digits.
Pad4(n) ==
    LET s == Itoa(n)
    IN  IF Len(s) >= 4 THEN s
        ELSE [i \in 1..(4 - Len(s)) |-> "0"] \o s

\* fmt.Sprintf("image_%04d.png", n)
TileName(n) == <<"i", "m", "a", "g", "e", "_">> \o Pad4(n) \o <<".", "p", "n", "g">>

\* fmt.Sprintf("%d,%d", r, c)
KeyOf(r, c) == Itoa(r) \o <<",">> \o Itoa(c)

RECURSIVE SkipSpace(_, _)
SkipSpace(s, i) == IF i <= Len(s) /\ s[i] = " " THEN SkipSpace(s, i + 1) ELSE i

\* The digits of s from position i on: <<value, next position>>.
RECURSIVE ScanDigits(_, _, _)
ScanDigits(s, i, acc) ==
    IF i <= Len(s) /\ IsDigit(s[i])
    THEN ScanDigits(s, i + 1, 10 * acc + DigitVal(s[i]))
    ELSE <<acc, i>>

\* The verb %d of fmt.Sscanf at position i of s: leading spaces, an optional
\* sign, then at least one decimal digit.
ScanInt(s, i) ==
    LET j  == SkipSpace(s, i)
        sg == j <= Len(s) /\ s[j] \in {"+", "-"}
        k  == IF sg THEN j + 1 ELSE j
        d  == ScanDigits(s, k, 0)
    IN  IF d[2] = k THEN [ok |-> FALSE, val |-> 0, next |-> k]
        ELSE [ok |-> TRUE,
              val |-> IF sg /\ s[j] = "-" THEN 0 - d[1] ELSE d[1],
              next |-> d[2]]

\* var r, c int; fmt.Sscanf(pos, "%d,%d", &r, &c) with the error dropped: a
\* variable the scan does not reach keeps its zero value.
Sscanf(pos) ==
    LET a == ScanInt(pos, 1)
        comma == a.ok /\ a.next <= Len(pos) /\ pos[a.next] = ","
        b == IF comma THEN ScanInt(pos, a.next + 1)
             ELSE [ok |-> FALSE, val |-> 0, next |-> 0]
    IN  [r |-> IF a.ok THEN a.val ELSE 0, c |-> IF b.ok THEN b.val ELSE 0]

IsUpper(ch) == ch \in {"A", "B", "P"}

ToLower(ch) == CASE ch = "A" -> "a" [] ch = "B" -> "b" [] ch = "P" -> "p" [] OTHER -> ch

RECURSIVE SnakeFrom(_, _)
SnakeFrom(s, i) ==
    IF i > Len(s) THEN <<>>
    ELSE (IF IsUpper(s[i])
          THEN (IF i > 1 THEN <<"_">> ELSE <<>>) \o <<ToLower(s[i])>>
          ELSE IF s[i] = " " \/ s[i] = "-" THEN <<"_">>
          ELSE <<s[i]>>) \o SnakeFrom(s, i + 1)

toSnakeCase(s) == SnakeFrom(s, 1)

\* -------------------------------------------------------------- geometry
Min(a, b) == IF a < b THEN a ELSE b

TargetWidth(columns) == tileSize * columns

\* The height rounded to the nearest integer instead.
TargetHeightRounded(columns, originalWidth, originalHeight) ==
    (2 * TargetWidth(columns) * originalHeight + originalWidth) \div (2 * originalWidth)

\* aspectRatio := float64(originalWidth) / float64(originalHeight)
\* targetHeight := int(float64(targetWidth) / aspectRatio)
TargetHeight(columns, originalWidth, originalHeight) ==
    TruncFloatQuot(TargetWidth(columns), FloatDiv(originalWidth, originalHeight))

\* resize.Resize(width, height, img, resize.Lanczos3) of github.com/nfnt/resize,
\* width > 0: a height of 0 asks for the aspect-preserving height, which the
\* library takes as uint(0.7 + Dy / (Dx / width)); the result is an image with
\* bounds (0,0)-(width,height).
ResizeBounds(width, height, dx, dy) ==
    [X |-> width,
     Y |-> IF height = 0 THEN (10 * dy * width + 7 * dx) \div (10 * dx) ELSE height]

GridCount(extent) == (extent + tileSize - 1) \div tileSize

\* The rectangle without the clipping of y1.
TileRectUnclipped(r, c, max) ==
    [x0 |-> c * tileSize,
     y0 |-> r * tileSize,
     x1 |-> Min(c * tileSize + tileSize, max.X),
     y1 |-> r * tileSize + tileSize]

\* The clipped rectangle of the tile at (r, c) of an image with bounds.Max = max.
TileRect(r, c, max) ==
    [x0 |-> c * tileSize,
     y0 |-> r * tileSize,
     x1 |-> Min(c * tileSize + tileSize, max.X),
     y1 |-> Min(r * tileSize + tileSize, max.Y)]

\* ----------------------------------------------------------------- state
Procs == 1..NumUploads

Exporters == 1..2

VARIABLES
    up,          \* up[p]: the locals of upload request p (uploadPuzzleHandler)
    mutex,       \* imageIndexMutex: 0 when free, else the request holding it
    catalog,     \* the file images/imageIndex.json
    store,       \* the files images/<folder>/pieces/<name>
    manifests,   \* the files images/<folder>/manifest.json
    ex,          \* ex[e]: the locals of export request e (exportPuzzleHandler)
    hist         \* history: the catalog at the start, whether a write tore it, the faults

vars == <<up, mutex, catalog, store, manifests, ex, hist>>

\* An image is a size and the pixels it shows: pixel (u, v) of the image is
\* pixel (ox + u, oy + v) of the picture called name.
Image(w, h, name, ox, oy) == [w |-> w, h |-> h, name |-> name, ox |-> ox, oy |-> oy]

\* What a file holds that no decoder accepts.
Corrupt == Image(0, 0, "corrupt", 0, 0)

PuzzleName(p) ==
    IF p = 1 THEN <<"A", "b">> ELSE IF p = 2 THEN <<"a", " ", "P">> ELSE <<"p", "-", Digits[p + 1]>>

IdleUpload ==
    [pc |-> "idle", puzzleName |-> <<>>, columns |-> 0, img |-> Corrupt,
     targetWidth |-> 0, targetHeight |-> 0, bounds |-> [X |-> 0, Y |-> 0],
     puzzleDirName |-> <<>>, cols |-> 0, rows |-> 0, r |-> 0, c |-> 0,
     pieces |-> <<>>, solution |-> <<>>, imageIndex |-> <<>>,
     status |-> "", ignored |-> FALSE]

\* A request as it arrives: the form fields name and columns and the image file.
NewUpload(name, columns, img) ==
    [IdleUpload EXCEPT !.pc = "start", !.puzzleName = name, !.columns = columns, !.img = img]

IdleExport ==
    [pc |-> "idle", folder |-> <<>>, placements |-> <<>>, maxRow |-> 0, maxCol |-> 0,
     dst |-> [w |-> 0, h |-> 0, draws |-> <<>>], todo |-> {}]

BadRequest == "400 Bad Request"

ServerError == "500 Internal Server Error"

StatusOK == "200 OK"

\* The handler returns with this response: its locals are gone; what the
\* request was for, and whether it dropped an error, is kept for the record.
Return(u, code) ==
    [IdleUpload EXCEPT !.pc = "done", !.status = code, !.puzzleName = u.puzzleName,
                       !.puzzleDirName = u.puzzleDirName, !.bounds = u.bounds,
                       !.rows = u.rows, !.cols = u.cols, !.ignored = u.ignored]

\* http.Error(w, msg, code); return
Fail(p, code) == Return(up[p], code)

\* The file system fails at most MaxFaults times.
MayFault == hist.faults < MaxFaults

Faulted == [hist EXCEPT !.faults = @ + 1]

\* ------------------------------------------------- uploadPuzzleHandler
\* columns, err := strconv.Atoi(columnsStr); if err != nil || columns <= 0
RejectColumns(p) ==
    /\ up[p].pc = "start"
    /\ up[p].columns <= 0
    /\ up' = [up EXCEPT ![p] = Fail(p, BadRequest)]
    /\ UNCHANGED <<mutex, catalog, store, manifests, ex, hist>>

\* img, _, err := image.Decode(file); if err != nil
RejectImage(p) ==
    /\ up[p].pc = "start"
    /\ up[p].columns > 0
    /\ up[p].img = Corrupt
    /\ up' = [up EXCEPT ![p] = Fail(p, BadRequest)]
    /\ UNCHANGED <<mutex, catalog, store, manifests, ex, hist>>

\* Decode, then resize to tileSize * columns wide.
Resize(p) ==
    /\ up[p].pc = "start"
    /\ up[p].columns > 0
    /\ up[p].img # Corrupt
    /\ LET targetWidth == TargetWidth(up[p].columns)
           targetHeight == TargetHeight(up[p].columns, up[p].img.w, up[p].img.h)
       IN  up' = [up EXCEPT ![p] =
                    [@ EXCEPT !.pc = "index",
                              !.targetWidth = targetWidth,
                              !.targetHeight = targetHeight,
                              !.bounds = ResizeBounds(targetWidth, targetHeight,
                                                      up[p].img.w, up[p].img.h),
                              !.puzzleDirName = toSnakeCase(up[p].puzzleName)]]
    /\ UNCHANGED <<mutex, catalog, store, manifests, ex, hist>>

\* jpeg.Encode refuses an image 1<<16 or more pixels wide or high.
JpegTooLarge(bounds) == bounds.X >= 2^16 \/ bounds.Y >= 2^16

\* os.MkdirAll, os.Create(index.jpg) and jpeg.Encode succeed; the grid is set up.
SaveIndex(p) ==
    /\ up[p].pc = "index"
    /\ ~JpegTooLarge(up[p].bounds)
    /\ up' = [up EXCEPT ![p] =
                [@ EXCEPT !.pc = "slice",
                          !.cols = GridCount(up[p].bounds.X),
                          !.rows = GridCount(up[p].bounds.Y),
                          !.r = 0, !.c = 0]]
    /\ UNCHANGED <<mutex, catalog, store, manifests, ex, hist>>

SaveIndexTooLarge(p) ==
    /\ up[p].pc = "index"
    /\ JpegTooLarge(up[p].bounds)
    /\ up' = [up EXCEPT ![p] = Fail(p, ServerError)]
    /\ UNCHANGED <<mutex, catalog, store, manifests, ex, hist>>

\* os.MkdirAll, os.Create(index.jpg) or jpeg.Encode fails on the file system.
SaveIndexFail(p) ==
    /\ up[p].pc = "index"
    /\ MayFault
    /\ up' = [up EXCEPT ![p] = Fail(p, ServerError)]
    /\ hist' = Faulted
    /\ UNCHANGED <<mutex, catalog, store, manifests, ex>>

\* The inner loop running one column too far (c <= cols).
NextCellOneMore(u) ==
    IF u.c + 1 <= u.cols THEN [r |-> u.r, c |-> u.c + 1] ELSE [r |-> u.r + 1, c |-> 0]

\* The loop counters after the body of the inner loop.
NextCell(u) ==
    IF u.c + 1 < u.cols THEN [r |-> u.r, c |-> u.c + 1] ELSE [r |-> u.r + 1, c |-> 0]

\* The decoded content of the tile file png.Encode writes: the pixels of the
\* clipped rectangle; the PNG keeps the size, not the origin.
TileImage(rect) == Image(rect.x1 - rect.x0, rect.y1 - rect.y0, "resized", rect.x0, rect.y0)

\* pieces = append(pieces, ...); solution[fmt.Sprintf("%d,%d", r, c)] = tileName
Record(u, tileName) ==
    LET key == KeyOf(u.r, u.c)
        nxt == NextCell(u)
    IN  [u EXCEPT !.pieces = Append(u.pieces, tileName),
                  !.solution = [k \in (DOMAIN u.solution) \cup {key} |->
                                   IF k = key THEN tileName ELSE u.solution[k]],
                  !.r = nxt.r, !.c = nxt.c]

\* One pass of the inner loop body: the tile is cut, created and encoded.
SliceTile(p) ==
    /\ up[p].pc = "slice"
    /\ up[p].r < up[p].rows
    /\ LET u == up[p]
           tileName == TileName(Len(u.pieces))
           tileRect == TileRect(u.r, u.c, u.bounds)
       IN  /\ store' = [f \in (DOMAIN store) \cup {<<u.puzzleDirName, tileName>>} |->
                           IF f = <<u.puzzleDirName, tileName>> THEN TileImage(tileRect)
                           ELSE store[f]]
           /\ up' = [up EXCEPT ![p] = Record(u, tileName)]
    /\ UNCHANGED <<mutex, catalog, manifests, ex, hist>>

\* tileFile, err := os.Create(tilePath); if err != nil
SliceTileCreateFail(p) ==
    /\ up[p].pc = "slice"
    /\ up[p].r < up[p].rows
    /\ MayFault
    /\ up' = [up EXCEPT ![p] = Fail(p, ServerError)]
    /\ hist' = Faulted
    /\ UNCHANGED <<mutex, catalog, store, manifests, ex>>

\* png.Encode(tileFile, tileImg) fails: the error is dropped, the file is left
\* without a decodable image and the loop goes on.
SliceTileEncodeFail(p) ==
    /\ up[p].pc = "slice"
    /\ up[p].r < up[p].rows
    /\ MayFault
    /\ hist' = Faulted
    /\ LET u == up[p]
           tileName == TileName(Len(u.pieces))
       IN  /\ store' = [f \in (DOMAIN store) \cup {<<u.puzzleDirName, tileName>>} |->
                           IF f = <<u.puzzleDirName, tileName>> THEN Corrupt
                           ELSE store[f]]
           /\ up' = [up EXCEPT ![p] = [Record(u, tileName) EXCEPT !.ignored = TRUE]]
    /\ UNCHANGED <<mutex, catalog, manifests, ex>>

PutManifest(folder, doc) ==
    manifests' = [f \in (DOMAIN manifests) \cup {folder} |->
                     IF f = folder THEN doc ELSE manifests[f]]

\* manifest.json is created and encoded.
WriteManifest(p) ==
    /\ up[p].pc = "slice"
    /\ up[p].r >= up[p].rows
    /\ PutManifest(up[p].puzzleDirName,
                   [ok |-> TRUE, pieces |-> up[p].pieces, solution |-> up[p].solution])
    /\ up' = [up EXCEPT ![p] = [@ EXCEPT !.pc = "lock"]]
    /\ UNCHANGED <<mutex, catalog, store, ex, hist>>

\* manifestFile, err := os.Create(manifestPath); if err != nil
WriteManifestCreateFail(p) ==
    /\ up[p].pc = "slice"
    /\ up[p].r >= up[p].rows
    /\ MayFault
    /\ up' = [up EXCEPT ![p] = Fail(p, ServerError)]
    /\ hist' = Faulted
    /\ UNCHANGED <<mutex, catalog, store, manifests, ex>>

\* json.NewEncoder(manifestFile).Encode(manifest) fails: the error is dropped.
WriteManifestEncodeFail(p) ==
    /\ up[p].pc = "slice"
    /\ up[p].r >= up[p].rows
    /\ PutManifest(up[p].puzzleDirName, [ok |-> FALSE, pieces |-> <<>>, solution |-> <<>>])
    /\ MayFault
    /\ up' = [up EXCEPT ![p] = [@ EXCEPT !.pc = "lock", !.ignored = TRUE]]
    /\ hist' = Faulted
    /\ UNCHANGED <<mutex, catalog, store, ex>>

\* ------------------------------------------- the catalog, imageIndex.json
\* A lock that does not exclude.
MutexFreeAlways == TRUE

MutexFree == mutex = 0

\* imageIndexMutex.Lock()
Lock(p) ==
    /\ up[p].pc = "lock"
    /\ MutexFree
    /\ mutex' = p
    /\ up' = [up EXCEPT ![p] = [@ EXCEPT !.pc = "read"]]
    /\ UNCHANGED <<catalog, store, manifests, ex, hist>>

\* A return path that leaves the mutex locked.
UnlockForgotten(p) == mutex' = mutex

\* defer imageIndexMutex.Unlock(), run when the handler returns
Unlock(p) == mutex' = 0

\* os.ReadFile finds the document (or finds none, or an empty one) and
\* json.Unmarshal decodes it.
ReadIndex(p) ==
    /\ up[p].pc = "read"
    /\ catalog.state # "corrupt"
    /\ up' = [up EXCEPT ![p] = [@ EXCEPT !.pc = "write", !.imageIndex = catalog.images]]
    /\ UNCHANGED <<mutex, catalog, store, manifests, ex, hist>>

\* os.ReadFile fails with an error other than "not exist".
ReadIndexFail(p) ==
    /\ up[p].pc = "read"
    /\ MayFault
    /\ up' = [up EXCEPT ![p] = Fail(p, ServerError)]
    /\ hist' = Faulted
    /\ Unlock(p)
    /\ UNCHANGED <<catalog, store, manifests, ex>>

\* json.Unmarshal fails on the document read.
ParseIndexFail(p) ==
    /\ up[p].pc = "read"
    /\ catalog.state = "corrupt"
    /\ up' = [up EXCEPT ![p] = Fail(p, ServerError)]
    /\ Unlock(p)
    /\ UNCHANGED <<catalog, store, manifests, ex, hist>>

NewImage(u) ==
    [name |-> u.puzzleName, folder |-> u.puzzleDirName, rows |-> u.rows, cols |-> u.cols,
     tl |-> <<"i", "m", "a", "g", "e", "_", "0", "0", "0", "0", ".", "p", "n", "g">>]

\* imageIndex.Images = append(imageIndex.Images, newImage)
Appended(u) == Append(u.imageIndex, NewImage(u))

\* append, json.MarshalIndent, os.WriteFile, the response {"status": "ok"}
WriteIndex(p) ==
    /\ up[p].pc = "write"
    /\ catalog' = [state |-> "json", images |-> Appended(up[p])]
    /\ up' = [up EXCEPT ![p] = Return(up[p], StatusOK)]
    /\ Unlock(p)
    /\ UNCHANGED <<store, manifests, ex, hist>>

\* os.WriteFile fails: before opening (the document is untouched), after
\* truncating it (it is empty), or part-way through (it is unparseable).
WriteIndexFail(p) ==
    /\ up[p].pc = "write"
    /\ MayFault
    /\ \/ /\ UNCHANGED catalog
          /\ hist' = Faulted
       \/ /\ \E st \in {"empty", "corrupt"} : catalog' = [state |-> st, images |-> <<>>]
          /\ hist' = [Faulted EXCEPT !.torn = TRUE]
    /\ up' = [up EXCEPT ![p] = Fail(p, ServerError)]
    /\ Unlock(p)
    /\ UNCHANGED <<store, manifests, ex>>

\* ------------------------------------------------- exportPuzzleHandler
SetMax(S) == CHOOSE m \in S : \A x \in S : x <= m

\* maxRow starting below every row instead of at 0.
MaxRowOfKeys(placements) == SetMax({-1} \cup {Sscanf(pos).r : pos \in DOMAIN placements})

\* var maxRow int; for pos := range placements { if r > maxRow { maxRow = r } }
MaxRow(placements) == SetMax({0} \cup {Sscanf(pos).r : pos \in DOMAIN placements})

MaxCol(placements) == SetMax({0} \cup {Sscanf(pos).c : pos \in DOMAIN placements})

\* The canvas size and the blank canvas image.NewRGBA.
ExportBegin(e) ==
    /\ ex[e].pc = "begin"
    /\ LET maxRow == MaxRow(ex[e].placements)
           maxCol == MaxCol(ex[e].placements)
       IN  ex' = [ex EXCEPT ![e] =
                    [@ EXCEPT !.pc = "paint", !.maxRow = maxRow, !.maxCol = maxCol,
                              !.dst = [w |-> (maxCol + 1) * tileSize,
                                       h |-> (maxRow + 1) * tileSize,
                                       draws |-> <<>>],
                              !.todo = DOMAIN ex[e].placements]]
    /\ UNCHANGED <<up, mutex, catalog, store, manifests, hist>>

TilePath(e, pos) == <<ex[e].folder, ex[e].placements[pos]>>

\* The draw with row and column swapped.
DrawSwapped(dst, pos, img) ==
    LET rc == Sscanf(pos)
    IN  [dst EXCEPT !.draws = Append(@, [x |-> rc.r * tileSize, y |-> rc.c * tileSize,
                                         img |-> img])]

\* pt := image.Pt(c*tileSize, r*tileSize); draw.Draw(dst, pt + img size, img, Over)
Draw(dst, pos, img) ==
    LET rc == Sscanf(pos)
    IN  [dst EXCEPT !.draws = Append(@, [x |-> rc.c * tileSize, y |-> rc.r * tileSize,
                                         img |-> img])]

\* One pass of the painting loop, for an entry the map iteration yields; the
\* tile opens and decodes.
ExportPaint(e) ==
    /\ ex[e].pc = "paint"
    /\ \E pos \in ex[e].todo :
          /\ TilePath(e, pos) \in DOMAIN store
          /\ store[TilePath(e, pos)] # Corrupt
          /\ ex' = [ex EXCEPT ![e] =
                      [@ EXCEPT !.dst = Draw(ex[e].dst, pos, store[TilePath(e, pos)]),
                                !.todo = @ \ {pos}]]
    /\ UNCHANGED <<up, mutex, catalog, store, manifests, hist>>

\* A tile that does not open ending the loop (break for continue).
ExportBreakOpen(e) ==
    /\ ex[e].pc = "paint"
    /\ \E pos \in ex[e].todo :
          /\ TilePath(e, pos) \notin DOMAIN store
          /\ ex' = [ex EXCEPT ![e] = [@ EXCEPT !.todo = {}]]
    /\ UNCHANGED <<up, mutex, catalog, store, manifests, hist>>

\* os.Open(tilePath) fails: continue
ExportSkipOpen(e) ==
    /\ ex[e].pc = "paint"
    /\ \E pos \in ex[e].todo :
          /\ TilePath(e, pos) \notin DOMAIN store
          /\ ex' = [ex EXCEPT ![e] = [@ EXCEPT !.todo = @ \ {pos}]]
    /\ UNCHANGED <<up, mutex, catalog, store, manifests, hist>>

\* image.Decode(tileFile) fails: continue
ExportSkipDecode(e) ==
    /\ ex[e].pc = "paint"
    /\ \E pos \in ex[e].todo :
          /\ TilePath(e, pos) \in DOMAIN store
          /\ store[TilePath(e, pos)] = Corrupt
          /\ ex' = [ex EXCEPT ![e] = [@ EXCEPT !.todo = @ \ {pos}]]
    /\ UNCHANGED <<up, mutex, catalog, store, manifests, hist>>

\* png.Encode(w, dst): the response
ExportEncode(e) ==
    /\ ex[e].pc = "paint"
    /\ ex[e].todo = {}
    /\ ex' = [ex EXCEPT ![e] = [@ EXCEPT !.pc = "done"]]
    /\ UNCHANGED <<up, mutex, catalog, store, manifests, hist>>

\* The pixel the draws leave at (x, y): the last draw that covers it wins
\* (draw.Over of an opaque tile), none leaves the canvas transparent.
RECURSIVE TopPixel(_, _, _, _)
TopPixel(draws, i, x, y) ==
    IF i = 0 THEN <<"transparent">>
    ELSE LET d == draws[i]
         IN  IF /\ d.x <= x /\ x < d.x + d.img.w
                /\ d.y <= y /\ y < d.y + d.img.h
             THEN <<d.img.name, d.img.ox + x - d.x, d.img.oy + y - d.y>>
             ELSE TopPixel(draws, i - 1, x, y)

PixelAt(dst, x, y) == TopPixel(dst.draws, Len(dst.draws), x, y)

\* ---------------------------------------------------------- the clients
\* A client exports the solution of the manifest of a puzzle just uploaded.
ExportSolution(e, p) ==
    /\ ex[e].pc = "idle"
    /\ up[p].status = StatusOK
    /\ up[p].puzzleDirName \in DOMAIN manifests
    /\ manifests[up[p].puzzleDirName].ok
    /\ ex' = [ex EXCEPT ![e] =
                [@ EXCEPT !.pc = "begin", !.folder = up[p].puzzleDirName,
                          !.placements = manifests[up[p].puzzleDirName].solution]]
    /\ UNCHANGED <<up, mutex, catalog, store, manifests, hist>>

\* A client sends the payload of a finished export once more.
ExportAgain(e, f) ==
    /\ ex[e].pc = "done"
    /\ ex[f].pc = "idle"
    /\ ex' = [ex EXCEPT ![f] =
                [@ EXCEPT !.pc = "begin", !.folder = ex[e].folder,
                          !.placements = ex[e].placements]]
    /\ UNCHANGED <<up, mutex, catalog, store, manifests, hist>>

\* ------------------------------------------------------- specifications
NoCatalog == [state |-> "absent", images |-> <<>>]

PriorEntry ==
    [name |-> <<"o", "l", "d">>, folder |-> <<"o", "l", "d">>, rows |-> 1, cols |-> 1,
     tl |-> TileName(0)]

\* Source image sizes: every small size, and sizes picked for what they do:
\* the scenario of the specification, a sliver whose height truncates to 0,
\* quotients the double division lands just below, a strip too tall for JPEG.
SampleSizes == {<<1800, 1200>>, <<2000, 1>>, <<256, 93>>, <<48, 59>>, <<1, 200>>}

\* Column counts: every small one, and the one of the specification's scenario.
ColumnCounts == (0..MaxColumns) \cup {4}

SourceSizes == ((1..MaxDim) \X (1..MaxDim)) \cup SampleSizes

SourceImage(size) == Image(size[1], size[2], "source", 0, 0)

\* The number of tiles an upload of this size and column count is cut into.
TileCount(size, columns) ==
    LET b == ResizeBounds(TargetWidth(columns), TargetHeight(columns, size[1], size[2]),
                          size[1], size[2])
    IN  GridCount(b.X) * GridCount(b.Y)

InitRest ==
    /\ mutex = 0
    /\ manifests = <<>>
    /\ hist = [prior |-> catalog.images, torn |-> FALSE, faults |-> 0]

\* One upload at a time, of any size and column count, on a sound file system.
InitGeom ==
    /\ \E size \in SourceSizes, columns \in ColumnCounts, ok \in BOOLEAN :
          up = [p \in Procs |->
                  IF p = 1
                  THEN NewUpload(PuzzleName(1), columns,
                                 IF ok THEN SourceImage(size) ELSE Corrupt)
                  ELSE IdleUpload]
    /\ catalog = NoCatalog
    /\ store = <<>>
    /\ ex = [e \in Exporters |-> IdleExport]
    /\ InitRest

SoundStep(p) ==
    \/ RejectColumns(p)
    \/ RejectImage(p)
    \/ Resize(p)
    \/ SaveIndex(p)
    \/ SaveIndexTooLarge(p)
    \/ SliceTile(p)
    \/ WriteManifest(p)
    \/ Lock(p)
    \/ ReadIndex(p)
    \/ WriteIndex(p)

NextGeom == \E p \in Procs : SoundStep(p)

SpecGeom == InitGeom /\ [][NextGeom]_vars

\* An upload of a few tiles, then the export of its solution.
InitRound ==
    /\ \E columns \in ColumnCounts \ {0} :
       \E size \in {sz \in SourceSizes : TileCount(sz, columns) <= MaxRoundTiles} :
          up = [p \in Procs |->
                  IF p = 1 THEN NewUpload(PuzzleName(1), columns, SourceImage(size))
                  ELSE IdleUpload]
    /\ catalog = NoCatalog
    /\ store = <<>>
    /\ ex = [e \in Exporters |-> IdleExport]
    /\ InitRest

NextRound ==
    \/ \E p \in Procs :
          \/ Resize(p)
          \/ SaveIndex(p)
          \/ SliceTile(p)
          \/ WriteManifest(p)
          \/ Lock(p)
          \/ ReadIndex(p)
          \/ WriteIndex(p)
    \/ ExportSolution(1, 1)
    \/ ExportBegin(1)
    \/ ExportPaint(1)
    \/ ExportEncode(1)

SpecRound == InitRound /\ [][NextRound]_vars

\* Concurrent uploads on a file system that may fail.
UploadRequests ==
    {<<1, SourceImage(<<1, 2>>)>>, <<0, SourceImage(<<1, 2>>)>>, <<1, Corrupt>>}

InitUpload ==
    /\ \E req \in [Procs -> UploadRequests] :
          up = [p \in Procs |-> NewUpload(PuzzleName(p), req[p][1], req[p][2])]
    /\ catalog \in {NoCatalog,
                    [state |-> "corrupt", images |-> <<>>],
                    [state |-> "json", images |-> <<PriorEntry>>]}
    /\ store = <<>>
    /\ ex = [e \in Exporters |-> IdleExport]
    /\ InitRest

UploadStep(p) ==
    \/ RejectColumns(p)
    \/ RejectImage(p)
    \/ Resize(p)
    \/ SaveIndex(p)
    \/ SaveIndexFail(p)
    \/ SliceTile(p)
    \/ SliceTileCreateFail(p)
    \/ SliceTileEncodeFail(p)
    \/ WriteManifest(p)
    \/ WriteManifestCreateFail(p)
    \/ WriteManifestEncodeFail(p)
    \/ Lock(p)
    \/ ReadIndex(p)
    \/ ReadIndexFail(p)
    \/ ParseIndexFail(p)
    \/ WriteIndex(p)
    \/ WriteIndexFail(p)

NextUpload == \E p \in Procs : UploadStep(p)

SpecUpload == InitUpload /\ [][NextUpload]_vars

\* The steps of request p from imageIndexMutex.Lock() to its return.
CatalogStep(p) ==
    \/ Lock(p)
    \/ ReadIndex(p)
    \/ ReadIndexFail(p)
    \/ ParseIndexFail(p)
    \/ WriteIndex(p)
    \/ WriteIndexFail(p)

\* A goroutine that has reached the catalog step keeps running, and a free
\* mutex is taken by a goroutine blocked in Lock.
FairSpecUpload == SpecUpload /\ \A p \in Procs : WF_vars(CatalogStep(p))

\* Exports of any small placement map over a fixed tile store.
ExportFolder == <<"a", "b">>

FileA == <<"a", ".", "p", "n", "g">>

FileB == <<"b", ".", "p", "n", "g">>

FileMissing == <<"c", ".", "p", "n", "g">>

FileBroken == <<"d", ".", "p", "n", "g">>

ExportStore ==
    [f \in {<<ExportFolder, FileA>>, <<ExportFolder, FileB>>, <<ExportFolder, FileBroken>>} |->
        IF f[2] = FileA THEN Image(tileSize, tileSize, "a", 0, 0)
        ELSE IF f[2] = FileB THEN Image(tileSize, 341, "b", 0, 0)
        ELSE Corrupt]

ExportKeys ==
    {KeyOf(0, 0), KeyOf(0, 1), KeyOf(1, 2), <<"0", "0", ",", "0">>, <<"-", "1", ",", "0">>,
     <<"x">>}

PlacementMaps ==
    UNION {[K -> {FileA, FileB, FileMissing, FileBroken}] :
             K \in {S \in SUBSET ExportKeys : Cardinality(S) <= MaxPlacements}}

InitExport ==
    /\ up = [p \in Procs |-> IdleUpload]
    /\ catalog = NoCatalog
    /\ store = ExportStore
    /\ \E m \in PlacementMaps :
          ex = [e \in Exporters |->
                  IF e = 1
                  THEN [IdleExport EXCEPT !.pc = "begin", !.folder = ExportFolder,
                                          !.placements = m]
                  ELSE IdleExport]
    /\ InitRest

NextExport ==
    \/ \E e \in Exporters :
          \/ ExportBegin(e)
          \/ ExportPaint(e)
          \/ ExportSkipOpen(e)
          \/ ExportSkipDecode(e)
          \/ ExportEncode(e)
    \/ ExportAgain(1, 2)

SpecExport == InitExport /\ [][NextExport]_vars

\* ---------------------------------------------------------------- claims
\* The slicing loop of request p has run to its end.
Sliced(p) == up[p].pc = "slice" /\ up[p].r >= up[p].rows

\* The rectangle of the resized image the i-th tile file of request p holds.
PieceRect(p, i) ==
    LET t == store[<<up[p].puzzleDirName, up[p].pieces[i]>>]
    IN  [x0 |-> t.ox, y0 |-> t.oy, x1 |-> t.ox + t.w, y1 |-> t.oy + t.h]

Inside(rect, x, y) == rect.x0 <= x /\ x < rect.x1 /\ rect.y0 <= y /\ y < rect.y1

Disjoint(a, b) == a.x1 <= b.x0 \/ b.x1 <= a.x0 \/ a.y1 <= b.y0 \/ b.y1 <= a.y0

\* The corners of the arrangement the tile edges cut the canvas into: the
\* canvas is covered iff each of them is.
CornersX(p) ==
    {x \in {0} \cup {PieceRect(p, i).x0 : i \in 1..Len(up[p].pieces)}
               \cup {PieceRect(p, i).x1 : i \in 1..Len(up[p].pieces)} :
        0 <= x /\ x < up[p].bounds.X}

CornersY(p) ==
    {y \in {0} \cup {PieceRect(p, i).y0 : i \in 1..Len(up[p].pieces)}
               \cup {PieceRect(p, i).y1 : i \in 1..Len(up[p].pieces)} :
        0 <= y /\ y < up[p].bounds.Y}

\* C1: for every source size and columns > 0 the slicing loop produces exactly
\* rows*cols tile rectangles, cols = columns, that partition the resized
\* canvas: pairwise disjoint, covering the canvas, each non-empty, inside the
\* canvas and at most tileSize x tileSize.
C1_TilesPartitionCanvas ==
    \A p \in Procs :
       Sliced(p) =>
          LET u == up[p]
              n == Len(u.pieces)
          IN  /\ n = u.rows * u.cols
              /\ u.cols = u.columns
              /\ \A i \in 1..n :
                    LET t == PieceRect(p, i)
                    IN  /\ 0 <= t.x0 /\ t.x0 < t.x1 /\ t.x1 <= u.bounds.X
                        /\ 0 <= t.y0 /\ t.y0 < t.y1 /\ t.y1 <= u.bounds.Y
                        /\ t.x1 - t.x0 <= tileSize
                        /\ t.y1 - t.y0 <= tileSize
              /\ \A i, j \in 1..n : i # j => Disjoint(PieceRect(p, i), PieceRect(p, j))
              /\ \A x \in CornersX(p), y \in CornersY(p) :
                    \E i \in 1..n : Inside(PieceRect(p, i), x, y)

\* A grid of several rows and columns whose last row is clipped has been cut.
C1_Witness ==
    \E p \in Procs :
       /\ Sliced(p)
       /\ up[p].rows >= 2 /\ up[p].cols >= 2
       /\ up[p].bounds.Y % tileSize # 0
       /\ Len(up[p].pieces) = up[p].rows * up[p].cols

\* Request p has computed the target size and resized the image.
Resized(p) == up[p].pc = "index"

ExactNum(p) == up[p].targetWidth * up[p].img.h

\* C7 as stated: the resized height is the nearest integer to
\* targetWidth * sourceHeight / sourceWidth.
C7_HeightIsRounded ==
    \A p \in Procs :
       Resized(p) =>
          /\ up[p].targetHeight = (2 * ExactNum(p) + up[p].img.w) \div (2 * up[p].img.w)
          /\ up[p].bounds.Y = up[p].targetHeight

\* C7 amended: targetHeight is the double quotient truncated toward zero: the
\* floor of targetWidth * sourceHeight / sourceWidth when that is no integer,
\* and the quotient itself or one less when it is; the resized image is
\* targetWidth wide and, when targetHeight >= 1, targetHeight high (1800x1200
\* with columns = 4 gives 2048x1365).
C7_HeightIsTruncated ==
    \A p \in Procs :
       Resized(p) =>
          LET u == up[p]
              floor == ExactNum(p) \div u.img.w
          IN  /\ u.targetWidth = tileSize * u.columns
              /\ ExactNum(p) % u.img.w # 0 => u.targetHeight = floor
              /\ ExactNum(p) % u.img.w = 0 => u.targetHeight \in {floor - 1, floor}
              /\ u.bounds.X = u.targetWidth
              /\ u.targetHeight >= 1 => u.bounds.Y = u.targetHeight
              /\ (u.img.w = 1800 /\ u.img.h = 1200 /\ u.columns = 4)
                    => u.bounds = [X |-> 2048, Y |-> 1365]

\* A quotient with a fraction of a half or more has been truncated.
C7_Witness ==
    \E p \in Procs :
       /\ Resized(p)
       /\ up[p].targetHeight >= 1
       /\ 2 * (ExactNum(p) % up[p].img.w) >= up[p].img.w
       /\ up[p].bounds.Y = ExactNum(p) \div up[p].img.w

\* Request p has written its manifest.
ManifestWritten(p) ==
    /\ up[p].pc = "lock"
    /\ up[p].puzzleDirName \in DOMAIN manifests
    /\ manifests[up[p].puzzleDirName].ok

\* The number in a tile file name image_<number>.png.
TileNumber(file) == ScanDigits(file, 7, 0)[1]

\* C8: after a successful slice the solution map is a bijection between the
\* grid cells and the tiles: pieces has rows*cols entries in row-major order
\* and solution["row,col"] is the file numbered row*cols + col, no key lies
\* outside the grid and no file is mapped twice.
C8_SolutionIsBijection ==
    \A p \in Procs :
       ManifestWritten(p) =>
          LET m == manifests[up[p].puzzleDirName]
              rows == up[p].rows
              cols == up[p].cols
          IN  /\ Len(m.pieces) = rows * cols
              /\ Cardinality(DOMAIN m.solution) = rows * cols
              /\ \A i \in 1..Len(m.pieces) : TileNumber(m.pieces[i]) = i - 1
              /\ \A k \in DOMAIN m.solution :
                    LET rc == Sscanf(k)
                    IN  /\ 0 <= rc.r /\ rc.r < rows
                        /\ 0 <= rc.c /\ rc.c < cols
                        /\ m.solution[k] = m.pieces[rc.r * cols + rc.c + 1]
              /\ \A r \in 0..(rows - 1), c \in 0..(cols - 1) :
                    \E k \in DOMAIN m.solution : Sscanf(k) = [r |-> r, c |-> c]
              /\ \A k1, k2 \in DOMAIN m.solution :
                    m.solution[k1] = m.solution[k2] => k1 = k2

\* The manifest of a grid of several rows and columns has been written.
C8_Witness ==
    \E p \in Procs :
       /\ ManifestWritten(p)
       /\ up[p].rows >= 2 /\ up[p].cols >= 2
       /\ Len(manifests[up[p].puzzleDirName].pieces) = up[p].rows * up[p].cols

\* The offsets inside a grid cell at which the edge of a tile of the store,
\* or of the cell, can fall.
CellOffsets ==
    {d \in {0, tileSize - 1}
           \cup UNION {{store[f].w - 1, store[f].w, store[f].h - 1, store[f].h} :
                          f \in DOMAIN store} :
        0 <= d /\ d < tileSize}

ProbesX(dst) == {x \in {c * tileSize + d : c \in 0..(dst.w \div tileSize), d \in CellOffsets} :
                   x < dst.w}

ProbesY(dst) == {y \in {r * tileSize + d : r \in 0..(dst.h \div tileSize), d \in CellOffsets} :
                   y < dst.h}

\* Export e has sent its response.
Exported(e) == ex[e].pc = "done"

\* C3 as stated: composing the solution of a freshly sliced puzzle gives an
\* image of the dimensions and the pixels of the resized image.
C3_RoundTripIdentical ==
    \A p \in Procs :
       (Exported(1) /\ up[p].status = StatusOK) =>
          /\ ex[1].dst.w = up[p].bounds.X
          /\ ex[1].dst.h = up[p].bounds.Y
          /\ \A x \in ProbesX(ex[1].dst), y \in ProbesY(ex[1].dst) :
                PixelAt(ex[1].dst, x, y) = <<"resized", x, y>>

\* C3 amended: for a puzzle of at least one row, the composite has the width
\* of the resized image and the height rows * tileSize; it shows the resized
\* image over the rectangle of the resized image and is transparent below it,
\* so the dimensions agree exactly when the resized height is a multiple of
\* tileSize.
C3_RoundTripPadded ==
    \A p \in Procs :
       (Exported(1) /\ up[p].status = StatusOK /\ up[p].rows >= 1) =>
          /\ ex[1].dst.w = up[p].bounds.X
          /\ ex[1].dst.h = up[p].rows * tileSize
          /\ ex[1].dst.h >= up[p].bounds.Y
          /\ ex[1].dst.h = up[p].bounds.Y <=> up[p].bounds.Y % tileSize = 0
          /\ \A x \in ProbesX(ex[1].dst), y \in ProbesY(ex[1].dst) :
                PixelAt(ex[1].dst, x, y) =
                   IF y < up[p].bounds.Y THEN <<"resized", x, y>> ELSE <<"transparent">>

\* The solution of a grid with a clipped last row has been composed.
C3_Witness ==
    \E p \in Procs :
       /\ Exported(1)
       /\ up[p].status = StatusOK
       /\ up[p].rows >= 2 /\ up[p].cols >= 2
       /\ up[p].bounds.Y % tileSize # 0
       /\ Len(ex[1].dst.draws) = up[p].rows * up[p].cols

SameCanvas(a, b) ==
    /\ a.w = b.w
    /\ a.h = b.h
    /\ \A x \in ProbesX(a), y \in ProbesY(a) : PixelAt(a, x, y) = PixelAt(b, x, y)

\* C4: for a fixed placement map and fixed tile files the final canvas is the
\* same whatever the order the entries are painted in: composing the same map
\* twice gives the same image.
C4_OrderIndependent ==
    (/\ Exported(1) /\ Exported(2)
     /\ ex[1].folder = ex[2].folder
     /\ ex[1].placements = ex[2].placements)
       => SameCanvas(ex[1].dst, ex[2].dst)

\* Every key is the text fmt.Sprintf("%d,%d") gives a cell of rows and columns
\* >= 0, so distinct keys name distinct cells.
WellFormed(placements) ==
    \A pos \in DOMAIN placements :
       LET rc == Sscanf(pos)
       IN  rc.r >= 0 /\ rc.c >= 0 /\ pos = KeyOf(rc.r, rc.c)

Opens(e, pos) == TilePath(e, pos) \in DOMAIN store /\ store[TilePath(e, pos)] # Corrupt

\* C5: with a tile that cannot be opened or decoded the export still returns
\* a canvas (maxCol+1)*tileSize wide and (maxRow+1)*tileSize high, the maxima
\* taken over all keys, the failing one included; every other tile is painted
\* at (col*tileSize, row*tileSize) and the cell of the failing entry is blank.
C5_MissingTileLeavesHole ==
    \A e \in Exporters :
       (Exported(e) /\ ex[e].placements # <<>> /\ WellFormed(ex[e].placements)) =>
          LET pl == ex[e].placements
              dst == ex[e].dst
          IN  /\ \A pos \in DOMAIN pl :
                    /\ (Sscanf(pos).c + 1) * tileSize <= dst.w
                    /\ (Sscanf(pos).r + 1) * tileSize <= dst.h
              /\ \E pos \in DOMAIN pl : (Sscanf(pos).c + 1) * tileSize = dst.w
              /\ \E pos \in DOMAIN pl : (Sscanf(pos).r + 1) * tileSize = dst.h
              /\ \A pos \in DOMAIN pl :
                    LET x0 == Sscanf(pos).c * tileSize
                        y0 == Sscanf(pos).r * tileSize
                    IN  \A dx, dy \in CellOffsets :
                           PixelAt(dst, x0 + dx, y0 + dy) =
                              IF /\ Opens(e, pos)
                                 /\ dx < store[TilePath(e, pos)].w
                                 /\ dy < store[TilePath(e, pos)].h
                              THEN <<store[TilePath(e, pos)].name, dx, dy>>
                              ELSE <<"transparent">>

\* The scenario of the specification with its second tile missing: "0,0" is
\* painted, "1,2" does not open, the canvas is 1536 x 1024.
C5_Witness ==
    /\ Exported(1)
    /\ DOMAIN ex[1].placements = {KeyOf(0, 0), KeyOf(1, 2)}
    /\ Opens(1, KeyOf(0, 0))
    /\ ~Opens(1, KeyOf(1, 2))
    /\ ex[1].dst.w = 1536 /\ ex[1].dst.h = 1024
    /\ Len(ex[1].dst.draws) = 1

\* C9 as stated: an empty placement map gives a canvas of width 0 and height 0.
C9_EmptyMapZeroCanvas ==
    \A e \in Exporters :
       (Exported(e) /\ ex[e].placements = <<>>) => (ex[e].dst.w = 0 /\ ex[e].dst.h = 0)

\* C9 amended: an empty placement map gives a blank canvas of exactly
\* tileSize x tileSize, and no canvas is smaller than tileSize x tileSize.
C9_EmptyMapOneTileCanvas ==
    \A e \in Exporters :
       Exported(e) =>
          /\ ex[e].dst.w >= tileSize
          /\ ex[e].dst.h >= tileSize
          /\ ex[e].placements = <<>> =>
                /\ ex[e].dst.w = tileSize
                /\ ex[e].dst.h = tileSize
                /\ ex[e].dst.draws = <<>>

\* An empty placement map has been composed.
C9_Witness == Exported(1) /\ ex[1].placements = <<>> /\ ex[1].dst.w = tileSize

\* The requests inside the read-modify-write cycle of the catalog.
InCycle == {p \in Procs : up[p].pc \in {"read", "write"}}

Succeeded == {p \in Procs : up[p].status = StatusOK}

\* C2: the read-modify-write cycles of the catalog never interleave, and no
\* append is lost: as long as no request failed while rewriting the document,
\* it holds the prior entries and after them one entry for each of the N
\* uploads that completed.
C2_NoLostAppend ==
    /\ Cardinality(InCycle) <= 1
    /\ \A p \in InCycle : mutex = p
    /\ (~hist.torn /\ catalog.state # "corrupt") =>
          /\ Len(catalog.images) = Len(hist.prior) + Cardinality(Succeeded)
          /\ \A i \in 1..Len(hist.prior) : catalog.images[i] = hist.prior[i]
          /\ \A p \in Succeeded :
                \E i \in (Len(hist.prior) + 1)..Len(catalog.images) :
                   /\ catalog.images[i].name = PuzzleName(p)
                   /\ catalog.images[i].folder = up[p].puzzleDirName

\* Every upload completed on top of a catalog that had an entry.
C2_Witness ==
    /\ Succeeded = Procs
    /\ Len(hist.prior) = 1
    /\ Len(catalog.images) = NumUploads + 1

\* C6: when persisting a tile or the manifest fails the request ends with a
\* server error and gets no catalog entry. (A failed os.Create returns at
\* once; ignored marks a failed png.Encode or manifest Encode.)
C6_NoEntryAfterStorageError ==
    \A p \in Procs :
       up[p].ignored =>
          /\ up[p].pc = "done" => up[p].status = ServerError
          /\ \A i \in 1..Len(catalog.images) : catalog.images[i].name # PuzzleName(p)

\* C10: a request that holds the mutex releases it on every way out, a read
\* or parse failure leaves the document as it was, and a request waiting for
\* the lock gets it in the end.
C10_LockIsReleased ==
    /\ \A p \in Procs : (up[p].pc = "lock") ~> (mutex = p)
    /\ [](\A p \in Procs : up[p].pc = "done" => mutex # p)
    /\ [][\A p \in Procs :
            (up[p].pc = "read" /\ up'[p].pc = "done") => catalog' = catalog]_vars

\* A request failed on an unparseable catalog, without any file system fault,
\* and another request holds the lock after it.
C10_Witness ==
    \E p, q \in Procs :
       /\ p # q
       /\ catalog.state = "corrupt"
       /\ hist.faults = 0
       /\ up[p].pc = "done" /\ up[p].status = ServerError
       /\ mutex = q /\ up[q].pc = "read"

====
